---- MODULE Spec2Model ----
(***************************************************************************)
(* Model of the invoice workflow engine (Demo/backend/agent_brain.py) and  *)
(* of the decimal validator it calls (backend/financial_body.py).          *)
(*                                                                         *)
(* Numbers.  The validator computes with decimal.Decimal.  A Decimal is    *)
(* modelled exactly, as a fixed-point number held in NLimbs base-100 limbs *)
(* (little-endian, FracLimbs of them fractional, i.e. 18 fractional        *)
(* digits); the top limb carries the sign.  A Python float is modelled by  *)
(* the digits of its repr(), which is what _to_decimal parses.  Sums and   *)
(* products stay below the 28 digits of the default context for every      *)
(* input offered, so they are exact, as they are in the program.           *)
(*                                                                         *)
(* Engine.  WorkflowContext objects live in heap, in order of creation;    *)
(* the registry active_workflows maps a workflow id to an object.  The id  *)
(* is str(uuid.uuid4())[:8], a random value: the model draws it from       *)
(* WorkflowIds.  start_workflow is followed through its statements (pc);   *)
(* the engine is single-threaded, so no other call runs until it returns.  *)
(* Invoice fields the engine never reads (iban, date, currency,            *)
(* department, items, file_path) are left out.                             *)
(*                                                                         *)
(* Other components.  The compliance service                               *)
(* (PROPOSAL_DELIVERY/backend/services.py), the validator called on its    *)
(* own and the PDF field extractor (backend/processor.py) each have their  *)
(* own variables and specification (SpecService, SpecCalculator,           *)
(* SpecProcessor); a specification keeps the other components idle.  A     *)
(* text is a sequence of characters.  A document is its lines, each with   *)
(* the pattern it matches and the text the pattern's group captures.       *)
(***************************************************************************)
EXTENDS Integers, Sequences, FiniteSets, TLC

\* ------------------------------------------------------------------------
\* decimal.Decimal
\* ------------------------------------------------------------------------

Base == 100
FracLimbs == 9
NLimbs == 28
\* decimal.getcontext().prec, the default context the module runs under
DecimalPrec == 28

Limbs == 1..NLimbs

RECURSIVE NormFrom(_, _, _)
NormFrom(v, i, c) ==
    IF i = NLimbs
    THEN [v EXCEPT ![i] = v[i] + c]
    ELSE LET t == v[i] + c
         IN  NormFrom([v EXCEPT ![i] = t % Base], i + 1, t \div Base)

DecZero == [i \in Limbs |-> 0]

\* carry propagation: every limb but the top one ends in 0..Base-1; zero
\* has nothing to carry
Norm(v) == IF v = DecZero THEN v ELSE NormFrom(v, 1, 0)

\* the Decimal written ip.fp, both as big-endian pairs of digits
FromParts(ip, fp) ==
    [i \in Limbs |->
        IF i <= FracLimbs
        THEN LET j == FracLimbs - i + 1
             IN  IF j <= Len(fp) THEN fp[j] ELSE 0
        ELSE LET k == Len(ip) - (i - FracLimbs) + 1
             IN  IF k >= 1 THEN ip[k] ELSE 0]

DecAdd(a, b) == Norm([i \in Limbs |-> a[i] + b[i]])
DecSub(a, b) == Norm([i \in Limbs |-> a[i] - b[i]])
DecNeg(a) == Norm([i \in Limbs |-> 0 - a[i]])
DecIsNeg(a) == a[NLimbs] < 0
DecAbs(a) == IF DecIsNeg(a) THEN DecNeg(a) ELSE a
\* a > b
DecGt(a, b) == DecIsNeg(DecSub(b, a))

\* ------------------------------------------------------------------------
\* FinancialCalculator
\* ------------------------------------------------------------------------

\* Values handed to the validator: a float, given by its sign and the
\* digits of its repr(), or a text that is not a number.
SignedFloat(neg, ip, fp) == [tag |-> "float", neg |-> neg, ip |-> ip, fp |-> fp]
FloatVal(ip, fp) == SignedFloat(FALSE, ip, fp)
TextVal(s) == [tag |-> "text", s |-> s]

\* _to_decimal: Decimal(str(value)) for a float; ValueError for a text that
\* does not parse.
to_decimal(value) ==
    IF value.tag = "float"
    THEN [raised |-> "None",
          d |-> IF value.neg
                THEN DecNeg(FromParts(value.ip, value.fp))
                ELSE FromParts(value.ip, value.fp)]
    ELSE [raised |-> "ValueError", d |-> DecZero]

\* float(d) for a Decimal d, as lines 58-60 and 70-72 build the debug
\* payload.  binary64 holds every decimal of at most DblDig significant
\* digits apart from all others, so the repr() of the float has the digits
\* of d; a longer d is rounded to the nearest binary64, and BinaryRounding
\* lists the repr() CPython gives for the long differences and sums the
\* model meets.
DblDig == 15

NonZeroLimbs(m) == {i \in Limbs : m[i] # 0}
TopLimb(m) == CHOOSE i \in NonZeroLimbs(m) : \A j \in NonZeroLimbs(m) : j <= i
LowLimb(m) == CHOOSE i \in NonZeroLimbs(m) : \A j \in NonZeroLimbs(m) : j >= i

\* the number of significant digits of a positive Decimal
SigDigits(m) ==
    2 * (TopLimb(m) - LowLimb(m) + 1)
        - (IF m[TopLimb(m)] < 10 THEN 1 ELSE 0)
        - (IF m[LowLimb(m)] % 10 = 0 THEN 1 ELSE 0)

\* the digits of a non-negative Decimal before and after the point, as
\* big-endian pairs
IntPairs(m) ==
    LET top == IF \E i \in NonZeroLimbs(m) : i > FracLimbs
               THEN TopLimb(m) ELSE FracLimbs + 1
    IN  [k \in 1..(top - FracLimbs) |-> m[top - k + 1]]
FracPairs(m) ==
    LET low == IF \E i \in NonZeroLimbs(m) : i <= FracLimbs
               THEN LowLimb(m) ELSE FracLimbs + 1
    IN  [k \in 1..(FracLimbs - low + 1) |-> m[FracLimbs - k + 1]]

BinaryRounding ==
\* float(Decimal('1730.26999999999995')) = 1730.27
       (FromParts(<<17, 30>>, <<26, 99, 99, 99, 99, 99, 95>>)
            :> FloatVal(<<17, 30>>, <<27>>))
\* float(Decimal('100.25000000000005')) = 100.25000000000006
    @@ (FromParts(<<1, 0>>, <<25, 0, 0, 0, 0, 0, 5>>)
            :> FloatVal(<<1, 0>>, <<25, 0, 0, 0, 0, 0, 6>>))
\* float(Decimal('120.000000000000002')) = 120.0
    @@ (FromParts(<<1, 20>>, <<0, 0, 0, 0, 0, 0, 0, 20>>)
            :> FloatVal(<<1, 20>>, <<>>))
\* float(Decimal('4.999999999999998')) = 4.999999999999998
    @@ (FromParts(<<4>>, <<99, 99, 99, 99, 99, 99, 99, 80>>)
            :> FloatVal(<<4>>, <<99, 99, 99, 99, 99, 99, 99, 80>>))
\* float(Decimal('9999.9999999999999')) = 10000.0
    @@ (FromParts(<<99, 99>>, <<99, 99, 99, 99, 99, 99, 90>>)
            :> FloatVal(<<1, 0, 0>>, <<>>))
\* float(Decimal('15000.0000000000004')) = 15000.0
    @@ (FromParts(<<1, 50, 0>>, <<0, 0, 0, 0, 0, 0, 40>>)
            :> FloatVal(<<1, 50, 0>>, <<>>))

float_of(d) ==
    LET m == DecAbs(d)
        f == IF m = DecZero \/ SigDigits(m) <= DblDig
             THEN FloatVal(IntPairs(m), FracPairs(m))
             ELSE BinaryRounding[m]
    IN  SignedFloat(DecIsNeg(d), f.ip, f.fp)

\* amount * rate, rate given in hundredths: the limbs of the exact product,
\* one limb finer than a Decimal of the model (limb i weighs 100^(i-11)).
DecMulRate(amount, rate) == Norm([i \in Limbs |-> amount[i] * rate])

\* quantize(Decimal("0.01"), ROUND_HALF_UP) of a non-negative product p:
\* the limbs below the cents are dropped and the result is one cent more
\* when the dropped part is at least half a cent.
QuantizeHalfUp(p) ==
    Norm([i \in Limbs |->
            IF i < FracLimbs THEN 0
            ELSE IF i = FracLimbs
                 THEN p[i + 1] + (IF p[i] >= 50 THEN 1 ELSE 0)
                 ELSE IF i < NLimbs THEN p[i + 1] ELSE 0])

\* quantize signals InvalidOperation when the coefficient of the result
\* would have more than prec digits; the result has 2 fractional digits.
QuantizeOverflows(q) ==
    \E i \in Limbs : i >= FracLimbs + (DecimalPrec \div 2) /\ q[i] # 0

calculate_tax(amount, rate) ==
    LET neg == DecIsNeg(amount)
        q   == QuantizeHalfUp(DecMulRate(DecAbs(amount), rate))
    IN  IF QuantizeOverflows(q)
        THEN [raised |-> "InvalidOperation", d |-> DecZero]
        ELSE [raised |-> "None", d |-> IF neg THEN DecNeg(q) ELSE q]

\* (variant) the variance allowed is four cents
TaxTolerance_Tight == FromParts(<<0>>, <<4>>)

\* Decimal("0.05")
TaxTolerance == FromParts(<<0>>, <<5>>)

\* (variant) a variance of exactly the tolerance is refused
ExceedsTolerance_Inclusive(tax_diff) == ~DecGt(TaxTolerance, tax_diff)

\* tax_diff > Decimal("0.05")
ExceedsTolerance(tax_diff) == DecGt(tax_diff, TaxTolerance)

\* what a call returns or raises: reason is the text before the
\* interpolated values, diff the Decimal the text ends with, debug the
\* dict, as the sequence of its items
ValidatorResult(raised, valid, reason, diff, debug) ==
    [raised |-> raised, valid |-> valid, reason |-> reason, diff |-> diff,
     debug |-> debug]

\* (variant) the difference is taken the other way round
ArithmeticDiff_Reversed(d_total, calculated_total) ==
    DecSub(calculated_total, d_total)

\* diff = d_total - calculated_total
ArithmeticDiff(d_total, calculated_total) == DecSub(d_total, calculated_total)

validate_invoice_math(subtotal, tax_amount, total, tax_rate) ==
    LET c_sub   == to_decimal(subtotal)
        c_tax   == to_decimal(tax_amount)
        c_total == to_decimal(total)
    IN
    IF \E c \in {c_sub, c_tax, c_total} : c.raised = "ValueError"
    THEN ValidatorResult("None", FALSE, "Invalid financial input", DecZero, <<>>)
    ELSE
    LET d_sub   == c_sub.d
        d_tax   == c_tax.d
        d_total == c_total.d
        calculated_total == DecAdd(d_sub, d_tax)
    IN
    IF calculated_total # d_total
    THEN LET diff == ArithmeticDiff(d_total, calculated_total)
         IN  ValidatorResult("None", FALSE, "Arithmetic Error", diff,
                             <<<<"expected_total", float_of(calculated_total)>>,
                               <<"claimed_total", float_of(d_total)>>,
                               <<"diff", float_of(diff)>>>>)
    ELSE
    LET expected_tax == calculate_tax(d_sub, tax_rate)
    IN
    IF expected_tax.raised # "None"
    THEN ValidatorResult(expected_tax.raised, FALSE, "", DecZero, <<>>)
    ELSE
    LET tax_diff == DecAbs(DecSub(expected_tax.d, d_tax))
    IN
    IF ExceedsTolerance(tax_diff)
    THEN ValidatorResult("None", FALSE, "Tax Logic Error", tax_diff,
                         <<<<"expected_tax", float_of(expected_tax.d)>>,
                           <<"claimed_tax", float_of(d_tax)>>,
                           <<"diff", float_of(tax_diff)>>>>)
    ELSE ValidatorResult("None", TRUE, "Math Validated", DecZero, <<>>)

\* ------------------------------------------------------------------------
\* Strings: a vendor name is a sequence of characters, so that lower() and
\* strip() are computed.
\* ------------------------------------------------------------------------

UpperChars == <<"A", "B", "C", "D", "E", "F", "G", "H", "I", "J", "K", "L", "M",
                "N", "O", "P", "Q", "R", "S", "T", "U", "V", "W", "X", "Y", "Z">>
LowerChars == <<"a", "b", "c", "d", "e", "f", "g", "h", "i", "j", "k", "l", "m",
                "n", "o", "p", "q", "r", "s", "t", "u", "v", "w", "x", "y", "z">>

LowerChar(c) ==
    IF \E k \in DOMAIN UpperChars : UpperChars[k] = c
    THEN LowerChars[CHOOSE k \in DOMAIN UpperChars : UpperChars[k] = c]
    ELSE c

\* str.lower()
Lower(s) == [k \in DOMAIN s |-> LowerChar(s[k])]

RECURSIVE LStrip(_)
LStrip(s) == IF s # <<>> /\ Head(s) = " " THEN LStrip(Tail(s)) ELSE s

RECURSIVE RStrip(_)
RStrip(s) ==
    IF s # <<>> /\ s[Len(s)] = " " THEN RStrip(SubSeq(s, 1, Len(s) - 1)) ELSE s

\* str.strip()
Strip(s) == LStrip(RStrip(s))

\* ------------------------------------------------------------------------
\* AgentMemory
\* ------------------------------------------------------------------------

KeyDarkWebCorp == <<"d", "a", "r", "k", " ", "w", "e", "b", " ", "c", "o", "r", "p">>
KeyAws == <<"a", "w", "s">>
KeyMcKenzie == <<"m", "c", "k", "e", "n", "z", "i", "e", " ", "c", "o", "n", "s", "u", "l", "t", "i", "n", "g">>

vendor_patterns ==
    (KeyDarkWebCorp :> [risk |-> "HIGH", avg_delay |-> 5, category |-> "Suspicious"])
    @@ (KeyAws :> [risk |-> "LOW", category |-> "Infrastructure"])
    @@ (KeyMcKenzie :> [risk |-> "MEDIUM", category |-> "Professional Services"])

retrieve_context(vendor_name) ==
    LET key == Strip(Lower(vendor_name))
    IN  IF key \in DOMAIN vendor_patterns
        THEN vendor_patterns[key]
        ELSE [risk |-> "UNKNOWN", category |-> "General"]

\* ------------------------------------------------------------------------
\* Invoices offered to the engine
\* ------------------------------------------------------------------------

DarkWebCorp == <<"D", "a", "r", "k", " ", "W", "e", "b", " ", "C", "o", "r", "p">>
AmazonWebServices == <<"A", "m", "a", "z", "o", "n", " ", "W", "e", "b", " ", "S", "e", "r", "v", "i", "c", "e", "s">>
McKenzieConsulting == <<"M", "c", "K", "e", "n", "z", "i", "e", " ", "C", "o", "n", "s", "u", "l", "t", "i", "n", "g">>
AWS == <<"A", "W", "S">>
AwsPadded == <<" ", "a", "w", "s", " ">>

\* An amount is a Python float, named by its str().  Floats holds, for each
\* amount the model offers, the floats that lines 141-142 of _execute_step
\* compute from it in IEEE-754 binary64 arithmetic, each given by the digits
\* of its repr():
\*   amount            implied_subtotal = amount / (1 + 0.21)
\*                     implied_tax      = amount - implied_subtotal
\*   120.0             99.17355371900827       20.826446280991732
\*   121.0             100.0                   21.0
\*   500.0             413.22314049586777      86.77685950413223
\*   10000.0           8264.462809917355       1735.5371900826449
\*   12100.0           10000.0                 2100.0
\*   15000.0           12396.694214876034      2603.3057851239664
\*   1e+30             8.264462809917356e+29   1.735537190082644e+29
Floats ==
    ("120.0" :>
        [amount |-> FloatVal(<<1, 20>>, <<>>),
         implied_subtotal |-> FloatVal(<<99>>, <<17, 35, 53, 71, 90, 8, 27>>),
         implied_tax |-> FloatVal(<<20>>, <<82, 64, 46, 28, 9, 91, 73, 20>>)])
    @@ ("121.0" :>
        [amount |-> FloatVal(<<1, 21>>, <<>>),
         implied_subtotal |-> FloatVal(<<1, 0>>, <<>>),
         implied_tax |-> FloatVal(<<21>>, <<>>)])
    @@ ("500.0" :>
        [amount |-> FloatVal(<<5, 0>>, <<>>),
         implied_subtotal |-> FloatVal(<<4, 13>>, <<22, 31, 40, 49, 58, 67, 77>>),
         implied_tax |-> FloatVal(<<86>>, <<77, 68, 59, 50, 41, 32, 23>>)])
    @@ ("10000.0" :>
        [amount |-> FloatVal(<<1, 0, 0>>, <<>>),
         implied_subtotal |-> FloatVal(<<82, 64>>, <<46, 28, 9, 91, 73, 55>>),
         implied_tax |-> FloatVal(<<17, 35>>, <<53, 71, 90, 8, 26, 44, 90>>)])
    @@ ("12100.0" :>
        [amount |-> FloatVal(<<1, 21, 0>>, <<>>),
         implied_subtotal |-> FloatVal(<<1, 0, 0>>, <<>>),
         implied_tax |-> FloatVal(<<21, 0>>, <<>>)])
    @@ ("15000.0" :>
        [amount |-> FloatVal(<<1, 50, 0>>, <<>>),
         implied_subtotal |-> FloatVal(<<1, 23, 96>>, <<69, 42, 14, 87, 60, 34>>),
         implied_tax |-> FloatVal(<<26, 3>>, <<30, 57, 85, 12, 39, 66, 40>>)])
    @@ ("1e+30" :>
        [amount |-> FloatVal(<<1, 0, 0, 0, 0, 0, 0, 0, 0, 0, 0, 0, 0, 0, 0, 0>>, <<>>),
         implied_subtotal |->
            FloatVal(<<82, 64, 46, 28, 9, 91, 73, 56, 0, 0, 0, 0, 0, 0, 0>>, <<>>),
         implied_tax |->
            FloatVal(<<17, 35, 53, 71, 90, 8, 26, 44, 0, 0, 0, 0, 0, 0, 0>>, <<>>)])

Invoice(invoice_id, vendor_name, amount) ==
    [invoice_id |-> invoice_id, vendor_name |-> vendor_name, amount |-> amount]

\* the three demonstration invoices of app.py, and others that reach the
\* remaining branches of the decision step
Invoices ==
    { Invoice("INV-2024-001", AmazonWebServices, "120.0"),
      Invoice("INV-2024-002", DarkWebCorp, "500.0"),
      Invoice("INV-2024-003", McKenzieConsulting, "15000.0"),
      Invoice("INV-2024-004", DarkWebCorp, "15000.0"),
      Invoice("INV-2024-005", AWS, "121.0"),
      Invoice("INV-2024-006", AwsPadded, "10000.0"),
      Invoice("INV-2024-007", McKenzieConsulting, "12100.0"),
      Invoice("INV-2024-008", McKenzieConsulting, "1e+30") }

\* ------------------------------------------------------------------------
\* WorkflowEngine
\* ------------------------------------------------------------------------

\* number of start_workflow calls explored
MaxWorkflows == 2
\* number of distinct values str(uuid.uuid4())[:8] takes in the model
NumIds == 2

WorkflowIds == 1..NumIds

PENDING == "PENDING"
PROCESSING == "PROCESSING"
AWAITING_HUMAN == "AWAITING_HUMAN"
APPROVED == "APPROVED"
REJECTED == "REJECTED"

WorkflowState == {PENDING, PROCESSING, AWAITING_HUMAN, APPROVED, REJECTED}

NoneValue == "None"
NoMemory == [risk |-> "None", category |-> "None"]
NotRun == [ran |-> FALSE, raised |-> "None", is_valid |-> FALSE, reason |-> ""]

HighRiskReason == "High Risk Vendor detected. CFO Approval Required."
LargeTransactionReason == "Large Transaction (> €10k). Variance Protocol initiated."
MathEngineReason == "Deterministic Math Engine Error. Manual Review needed."

VARIABLES
    heap,              \* the WorkflowContext objects, in order of creation
    active_workflows,  \* the registry: workflow id -> object (index in heap)
    pc,                \* where the single thread of control is
    w_id,              \* the id the running start_workflow call holds
    ctx,               \* the object the running _execute_step call holds
    math_result,       \* per object: what validate_invoice_math returned
    last_signal,       \* arguments of the latest signal_human_approval call
    service,           \* ComplianceService: the reference data it loaded
    results,           \* ComplianceService: the ProcessingResults it returned
    odoo_posts,        \* ComplianceService: invoices handed to _post_to_odoo_mock
    fin_args,          \* FinancialCalculator: arguments of the call explored
    fin_result,        \* FinancialCalculator: what the call returned
    raw_text,          \* PDFProcessor: the text read from the document
    parsed,            \* PDFProcessor: what the call returned or raised
    normalized         \* PDFProcessor: the _normalize_currency_string calls made

engine_vars == <<heap, active_workflows, pc, w_id, ctx, math_result, last_signal>>
service_vars == <<service, results, odoo_posts>>
fin_vars == <<fin_args, fin_result>>
pdf_vars == <<raw_text, parsed, normalized>>

vars == <<heap, active_workflows, pc, w_id, ctx, math_result, last_signal,
          service, results, odoo_posts, fin_args, fin_result, raw_text, parsed,
          normalized>>

\* a component no call is made on
NotCalled == "not called"
NoService == /\ service = NotCalled /\ results = <<>> /\ odoo_posts = <<>>
NoCalculator == /\ fin_args = NotCalled /\ fin_result = <<>>
NoProcessor == /\ raw_text = <<>> /\ parsed = <<>> /\ normalized = <<>>

NoSignal == [id |-> 0, approved |-> FALSE]

\* an engine no workflow was started on
NoWorkflows ==
    /\ heap = <<>>
    /\ active_workflows = <<>>
    /\ pc = "idle"
    /\ w_id = 0
    /\ ctx = 0
    /\ math_result = <<>>
    /\ last_signal = NoSignal

Init ==
    /\ NoWorkflows
    /\ NoService
    /\ NoCalculator
    /\ NoProcessor

\* WorkflowContext(workflow_id=..., status=PENDING, invoice=...)
WorkflowContext(id, invoice) ==
    [workflow_id |-> id,
     status |-> PENDING,
     invoice |-> invoice,
     logs |-> <<>>,
     math_verification |-> NoneValue,
     memory_context |-> NoMemory,
     human_action_needed |-> NoneValue]

\* (variant) the entry replaces the log instead of being appended
Log_Overwrite(c, message) == [c EXCEPT !.logs = <<message>>]

\* _log: the entry is the message (the HH:MM:SS prefix is left out)
Log(c, message) == [c EXCEPT !.logs = Append(@, message)]

\* (variant) the pause records the reason but rejects the workflow
PauseForHuman_Rejects(c, reason) ==
    Log([c EXCEPT !.status = REJECTED, !.human_action_needed = reason],
        "Workflow Paused: " \o reason)

\* (variant) the pause records the reason and leaves the status alone
PauseForHuman_KeepsStatus(c, reason) ==
    Log([c EXCEPT !.human_action_needed = reason], "Workflow Paused: " \o reason)

\* (variant) the pause sets the status and records no reason
PauseForHuman_NoReason(c, reason) ==
    Log([c EXCEPT !.status = AWAITING_HUMAN], "Workflow Paused: " \o reason)

\* _pause_for_human
PauseForHuman(c, reason) ==
    Log([c EXCEPT !.status = AWAITING_HUMAN, !.human_action_needed = reason],
        "Workflow Paused: " \o reason)

\* (variant) the threshold itself is gated: amount >= 10000
LargeTransaction_Inclusive(amount) ==
    ~DecGt(FromParts(<<1, 0, 0>>, <<>>), to_decimal(Floats[amount].amount).d)

\* ctx.invoice.amount > 10000
LargeTransaction(amount) ==
    DecGt(to_decimal(Floats[amount].amount).d, FromParts(<<1, 0, 0>>, <<>>))

\* (variant) the gate looks for a risk the memory never reports
HighRiskGate_WrongLabel(vendor_ctx) == vendor_ctx.risk = "High"

\* Gate 1: vendor_ctx.get("risk") == "HIGH"
HighRiskGate(vendor_ctx) == vendor_ctx.risk = "HIGH"

\* start_workflow, up to the call of _execute_step
start_workflow(invoice, id) ==
    /\ pc = "idle"
    /\ Len(heap) < MaxWorkflows
    /\ heap' = Append(heap,
                  Log(WorkflowContext(id, invoice),
                      "Workflow initialized for Invoice #" \o invoice.invoice_id))
    /\ active_workflows' = (id :> Len(heap) + 1) @@ active_workflows
    /\ math_result' = Append(math_result, NotRun)
    /\ pc' = "execute_step"
    /\ w_id' = id
    /\ ctx' = 0
    /\ last_signal' = NoSignal
    /\ UNCHANGED <<service_vars, fin_vars, pdf_vars>>

\* _execute_step, lines 117-123
ExecuteStepBegin ==
    /\ pc = "execute_step"
    /\ IF w_id \notin DOMAIN active_workflows
       THEN /\ pc' = "idle"
            /\ w_id' = 0
            /\ UNCHANGED <<heap, ctx>>
       ELSE LET o == active_workflows[w_id]
            IN  /\ ctx' = o
                /\ heap' = [heap EXCEPT ![o] =
                              Log([@ EXCEPT !.status = PROCESSING],
                                  "Agent execution started.")]
                /\ pc' = "retrieve"
                /\ UNCHANGED w_id
    /\ UNCHANGED <<active_workflows, math_result, last_signal>>
    /\ UNCHANGED <<service_vars, fin_vars, pdf_vars>>

\* _execute_step, lines 125-133: context retrieval and the high-risk gate
ContextRetrieval ==
    /\ pc = "retrieve"
    /\ LET vendor_ctx == retrieve_context(heap[ctx].invoice.vendor_name)
           c1 == Log([heap[ctx] EXCEPT !.memory_context =
                          [risk |-> vendor_ctx.risk,
                           category |-> vendor_ctx.category]],
                     "Memory Lookup: Identified as " \o vendor_ctx.risk
                         \o " Risk.")
       IN  IF HighRiskGate(vendor_ctx)
           THEN /\ heap' = [heap EXCEPT ![ctx] = PauseForHuman(c1, HighRiskReason)]
                /\ pc' = "idle"
                /\ w_id' = 0
                /\ ctx' = 0
           ELSE /\ heap' = [heap EXCEPT ![ctx] = c1]
                /\ pc' = "math"
                /\ UNCHANGED <<w_id, ctx>>
    /\ UNCHANGED <<active_workflows, math_result, last_signal>>
    /\ UNCHANGED <<service_vars, fin_vars, pdf_vars>>

\* _execute_step, lines 135-159: the math check and the large-transaction
\* gate, inside try/except Exception
MathIntegrityCheck ==
    /\ pc = "math"
    /\ LET amount == heap[ctx].invoice.amount
           r == validate_invoice_math(Floats[amount].implied_subtotal,
                                      Floats[amount].implied_tax,
                                      Floats[amount].amount, 21)
       IN  /\ math_result' = [math_result EXCEPT ![ctx] =
                                [ran |-> TRUE, raised |-> r.raised,
                                 is_valid |-> r.valid, reason |-> r.reason]]
           /\ IF r.raised # "None"
              THEN /\ heap' = [heap EXCEPT ![ctx] =
                                  PauseForHuman(@, MathEngineReason)]
                   /\ pc' = "idle"
                   /\ w_id' = 0
                   /\ ctx' = 0
              ELSE IF LargeTransaction(amount)
                   THEN /\ heap' = [heap EXCEPT ![ctx] =
                                       PauseForHuman(@, LargeTransactionReason)]
                        /\ pc' = "idle"
                        /\ w_id' = 0
                        /\ ctx' = 0
                   ELSE /\ pc' = "decide"
                        /\ UNCHANGED <<heap, w_id, ctx>>
    /\ UNCHANGED <<active_workflows, last_signal>>
    /\ UNCHANGED <<service_vars, fin_vars, pdf_vars>>

\* _execute_step, lines 161-163
FinalDecision ==
    /\ pc = "decide"
    /\ heap' = [heap EXCEPT ![ctx] =
                  Log([@ EXCEPT !.status = APPROVED],
                      "Auto-Approval Logic satisfied. Transaction Released.")]
    /\ pc' = "idle"
    /\ w_id' = 0
    /\ ctx' = 0
    /\ UNCHANGED <<active_workflows, math_result, last_signal>>
    /\ UNCHANGED <<service_vars, fin_vars, pdf_vars>>

\* (variant) the signal reaches the context created last
Lookup_Latest(id) == Len(heap)

\* ctx = self.active_workflows[w_id]: the context a registered id names
Lookup(id) == active_workflows[id]

\* (variant) the decision is taken but the pending reason stays
SignalEffect_KeepsReason(c, approved) ==
    IF approved
    THEN [Log(c, "Signal Received: CFO APPROVED. Resuming...")
            EXCEPT !.status = APPROVED]
    ELSE [Log(c, "Signal Received: CFO REJECTED. Terminating.")
            EXCEPT !.status = REJECTED]

\* what signal_human_approval does to the object it resolved
SignalEffect(c, approved) ==
    IF approved
    THEN [Log(c, "Signal Received: CFO APPROVED. Resuming...")
            EXCEPT !.status = APPROVED, !.human_action_needed = NoneValue]
    ELSE [Log(c, "Signal Received: CFO REJECTED. Terminating.")
            EXCEPT !.status = REJECTED, !.human_action_needed = NoneValue]

\* (variant) only the unknown id is ignored
SignalIgnored_UnknownOnly(id) == id \notin DOMAIN active_workflows

\* (variant) a context that is being processed or was rejected is ignored,
\* an approved one is not
SignalIgnored_ApprovedResumes(id) ==
    \/ id \notin DOMAIN active_workflows
    \/ heap[active_workflows[id]].status \notin {AWAITING_HUMAN, APPROVED}

\* the two early returns of signal_human_approval
SignalIgnored(id) ==
    \/ id \notin DOMAIN active_workflows
    \/ heap[Lookup(id)].status # AWAITING_HUMAN

signal_human_approval(id, approved) ==
    /\ pc = "idle"
    /\ IF SignalIgnored(id)
       THEN UNCHANGED heap
       ELSE heap' = [heap EXCEPT ![Lookup(id)] = SignalEffect(@, approved)]
    /\ last_signal' = [id |-> id, approved |-> approved]
    /\ UNCHANGED <<active_workflows, pc, w_id, ctx, math_result>>
    /\ UNCHANGED <<service_vars, fin_vars, pdf_vars>>

Next ==
    \/ \E invoice \in Invoices, id \in WorkflowIds : start_workflow(invoice, id)
    \/ ExecuteStepBegin
    \/ ContextRetrieval
    \/ MathIntegrityCheck
    \/ FinalDecision
    \/ \E id \in WorkflowIds, approved \in BOOLEAN :
          signal_human_approval(id, approved)

Spec == Init /\ [][Next]_vars

\* ------------------------------------------------------------------------
\* ComplianceService (PROPOSAL_DELIVERY/backend/services.py)
\*
\* The reference data are the three tables _initialize_resources loads;
\* a table is the sequence of its rows.  Names, departments and IBANs are
\* sequences of characters; an amount is a number of cents; a date is the
\* number of its day, which orders as its ISO text does.
\* ------------------------------------------------------------------------

\* number of process_invoice calls explored
MaxInvoices == 2

PASS == "PASS"
FAIL == "FAIL"
WARNING == "WARNING"

AcmeBV == <<"A", "c", "m", "e", " ", "B", "V">>
AcmeBVLoose == <<" ", "a", "c", "m", "e", " ", "b", "v", " ">>
Newco == <<"N", "e", "w", "c", "o">>
IbanAcme == <<"N", "L", "9", "1", "A", "B", "N", "A", "0", "4", "1", "7">>
IbanAcmeSpaced == <<"N", "L", "9", "1", " ", "A", "B", "N", "A", " ", "0", "4", "1", "7">>
IbanDark == <<"N", "L", "0", "2", "R", "A", "B", "O", "0", "1", "2", "3">>
IbanUnlisted == <<"D", "E", "4", "4", "5", "0", "0", "1", "0", "5", "1", "7", "5", "4", "0", "7">>
UNKNOWN == <<"U", "N", "K", "N", "O", "W", "N">>
DeptIT == <<"I", "T">>
DeptITLoose == <<" ", "i", "t", " ">>
DeptMarketing == <<"M", "a", "r", "k", "e", "t", "i", "n", "g">>
DeptMarketingLedger == <<" ", "m", "a", "r", "k", "e", "t", "i", "n", "g", " ">>
DeptLegal == <<"L", "e", "g", "a", "l">>
DeptUnknown == <<"U", "n", "k", "n", "o", "w", "n">>
DeptUnknownLower == <<"u", "n", "k", "n", "o", "w", "n">>

\* data/vendors.csv, data/budgets.csv, data/contracts.csv as read_csv
\* returns them
LoadedResources ==
    [vendors |->
        <<[vendor_name |-> AcmeBV, iban |-> IbanAcmeSpaced, risk_level |-> "Low"],
          [vendor_name |-> DarkWebCorp, iban |-> IbanDark, risk_level |-> "High"]>>,
     budgets |->
        <<[department |-> DeptIT, remaining_budget |-> 500000],
          [department |-> DeptMarketingLedger, remaining_budget |-> 100000],
          [department |-> DeptUnknown, remaining_budget |-> 200000]>>,
     contracts |->
        <<[vendor_name |-> AcmeBV, start_date |-> 10, end_date |-> 20,
           is_active |-> TRUE],
          [vendor_name |-> DarkWebCorp, start_date |-> 10, end_date |-> 20,
           is_active |-> FALSE],
          [vendor_name |-> Newco, start_date |-> 10, end_date |-> 20,
           is_active |-> TRUE]>>]

\* _set_empty_state: the data files are missing
EmptyResources == [vendors |-> <<>>, budgets |-> <<>>, contracts |-> <<>>]

\* Invoice.date is None: no day has this number
NoDate == 0

ServiceInvoice(invoice_id, vendor_name, iban, date, amount, department) ==
    [invoice_id |-> invoice_id, vendor_name |-> vendor_name, iban |-> iban,
     date |-> date, amount |-> amount, department |-> department]

ServiceInvoices ==
    {ServiceInvoice("S-01", AcmeBV, IbanAcme, 15, 100000, DeptIT),
     ServiceInvoice("S-02", AcmeBV, IbanAcmeSpaced, 15, 100000, DeptIT),
     ServiceInvoice("S-03", AcmeBV, UNKNOWN, 15, 100000, DeptIT),
     ServiceInvoice("S-04", AcmeBV, IbanUnlisted, 15, 100000, DeptIT),
     ServiceInvoice("S-05", AcmeBVLoose, IbanAcme, 10, 100000, DeptIT),
     ServiceInvoice("S-06", DarkWebCorp, IbanDark, 15, 100000, DeptIT),
     ServiceInvoice("S-07", Newco, IbanAcme, 20, 100000, DeptIT),
     ServiceInvoice("S-08", AcmeBV, IbanAcme, 15, 100000, DeptUnknown),
     ServiceInvoice("S-09", AcmeBV, IbanAcme, 15, 100000, DeptITLoose),
     ServiceInvoice("S-10", AcmeBV, IbanAcme, 15, 100000, DeptLegal),
     ServiceInvoice("S-11", AcmeBV, IbanAcme, 15, 500000, DeptIT),
     ServiceInvoice("S-12", AcmeBV, IbanAcme, 15, 500001, DeptIT),
     ServiceInvoice("S-13", AcmeBV, IbanAcme, NoDate, 100000, DeptIT),
     ServiceInvoice("S-14", AcmeBV, IbanAcme, 25, 100000, DeptIT),
     ServiceInvoice("S-15", AcmeBV, IbanAcme, 15, 100000, DeptUnknownLower),
     ServiceInvoice("S-16", Newco, IbanAcme, 15, 300000, DeptUnknown),
     ServiceInvoice("S-17", AcmeBV, UNKNOWN, 15, 100000, DeptUnknown),
     ServiceInvoice("S-18", AcmeBV, IbanAcme, 15, 100001, DeptMarketing),
     ServiceInvoice("S-19", AcmeBV, IbanAcme, 15, 200001, DeptUnknownLower)}

CheckResult(check_name, status, message) ==
    [check_name |-> check_name, status |-> status, message |-> message]

\* str.replace(" ", "")
RemoveSpaces(s) == SelectSeq(s, LAMBDA c : c # " ")

\* the rows of a table whose column, stripped and lowered, is the key
Matching(table, column, key) ==
    SelectSeq(table, LAMBDA row : Lower(Strip(row[column])) = key)

\* the IBAN _verify_financial_routing looks up: invoice.iban as it stands
InvoiceIban(invoice) == invoice.iban

verify_financial_routing(self, invoice) ==
    LET authorized_ibans ==
            {RemoveSpaces(self.vendors[i].iban) : i \in DOMAIN self.vendors}
    IN  IF invoice.iban = UNKNOWN
        THEN CheckResult("Financial Routing", FAIL,
                         <<"Missing IBAN on document.">>)
        ELSE IF InvoiceIban(invoice) \notin authorized_ibans
             THEN CheckResult("Financial Routing", FAIL,
                              <<"Unauthorized IBAN detected: ">> \o invoice.iban)
             ELSE CheckResult("Financial Routing", PASS, <<"IBAN verified.">>)

assess_vendor_risk(self, invoice) ==
    LET inv_vendor == Lower(Strip(invoice.vendor_name))
        vendor_data == Matching(self.vendors, "vendor_name", inv_vendor)
    IN  IF vendor_data = <<>>
        THEN CheckResult("Vendor Risk", WARNING,
                         <<"Vendor unknown (First-time supplier).">>)
        ELSE IF vendor_data[1].risk_level = "High"
             THEN CheckResult("Vendor Risk", FAIL,
                              <<"Vendor is flagged as HIGH RISK.">>)
             ELSE CheckResult("Vendor Risk", PASS, <<"Vendor cleared.">>)

\* (variant) a spend equal to the remaining budget is refused
OverBudget_Inclusive(amount, remaining) == amount >= remaining

\* invoice.amount > remaining
OverBudget(amount, remaining) == amount > remaining

validate_budgetary_alignment(self, invoice) ==
    LET inv_dept == Lower(Strip(invoice.department))
        allocation == Matching(self.budgets, "department", inv_dept)
    IN  IF invoice.department = DeptUnknown
        THEN CheckResult("Budget Check", WARNING, <<"Unclassified Department.">>)
        ELSE IF allocation = <<>>
             THEN CheckResult("Budget Check", FAIL,
                              <<"No budget allocated for '">>
                                  \o invoice.department \o <<"'.">>)
             ELSE LET remaining == allocation[1].remaining_budget
                  IN  IF OverBudget(invoice.amount, remaining)
                      THEN CheckResult("Budget Check", FAIL,
                                       <<"Budget Exceeded. Req: €", invoice.amount,
                                         " > Rem: €", remaining>>)
                      ELSE CheckResult("Budget Check", PASS,
                                       <<"Approved. (Remaining: €",
                                         remaining - invoice.amount, ")">>)

verify_contractual_standing(self, invoice) ==
    LET inv_vendor == Lower(Strip(invoice.vendor_name))
        agreements == Matching(self.contracts, "vendor_name", inv_vendor)
    IN  IF invoice.date = NoDate
        THEN CheckResult("Contract Check", FAIL, <<"Invoice missing date info.">>)
        ELSE IF \E i \in DOMAIN agreements :
                    /\ agreements[i].is_active
                    /\ agreements[i].start_date <= invoice.date
                    /\ invoice.date <= agreements[i].end_date
             THEN CheckResult("Contract Check", PASS,
                              <<"Active Master Agreement found.">>)
             ELSE CheckResult("Contract Check", FAIL,
                              <<"No active contract covers this date.">>)

\* (variant) a warning no longer holds the invoice back
Aggregate_WarningsApprove(checks) ==
    IF \E i \in DOMAIN checks : checks[i].status = FAIL
    THEN [final_status |-> "REJECTED", risk_score |-> 100, sync |-> FALSE]
    ELSE [final_status |-> "APPROVED", risk_score |-> 0, sync |-> TRUE]

\* (variant) an invoice held for review is synced all the same
Aggregate_SyncsDraft(checks) ==
    IF \E i \in DOMAIN checks : checks[i].status = FAIL
    THEN [final_status |-> "REJECTED", risk_score |-> 100, sync |-> FALSE]
    ELSE IF \E i \in DOMAIN checks : checks[i].status = WARNING
         THEN [final_status |-> "DRAFT", risk_score |-> 50, sync |-> TRUE]
         ELSE [final_status |-> "APPROVED", risk_score |-> 0, sync |-> TRUE]

\* process_invoice, lines 74-92: the decision and whether the else branch,
\* which calls _post_to_odoo_mock, is taken
Aggregate(checks) ==
    LET critical_failures == SelectSeq(checks, LAMBDA c : c.status = FAIL)
        warnings == SelectSeq(checks, LAMBDA c : c.status = WARNING)
    IN  IF critical_failures # <<>>
        THEN [final_status |-> "REJECTED", risk_score |-> 100, sync |-> FALSE]
        ELSE IF warnings # <<>>
             THEN [final_status |-> "DRAFT", risk_score |-> 50, sync |-> FALSE]
             ELSE [final_status |-> "APPROVED", risk_score |-> 0, sync |-> TRUE]

ProcessingResult(invoice, checks, final_status, risk_score) ==
    [invoice |-> invoice, checks |-> checks, final_status |-> final_status,
     risk_score |-> risk_score]

\* (variant) the checklist stops at the first check that fails
RunChecks_StopAtFail(self, invoice) ==
    LET routing == verify_financial_routing(self, invoice)
        risk == assess_vendor_risk(self, invoice)
        budget == validate_budgetary_alignment(self, invoice)
    IN  IF routing.status = FAIL THEN <<routing>>
        ELSE IF risk.status = FAIL THEN <<routing, risk>>
        ELSE IF budget.status = FAIL THEN <<routing, risk, budget>>
        ELSE <<routing, risk, budget,
               verify_contractual_standing(self, invoice)>>

\* process_invoice, lines 67-72: the list of the four check results
RunChecks(self, invoice) ==
    <<verify_financial_routing(self, invoice),
      assess_vendor_risk(self, invoice),
      validate_budgetary_alignment(self, invoice),
      verify_contractual_standing(self, invoice)>>

process_invoice(invoice) ==
    /\ Len(results) < MaxInvoices
    /\ LET checks == RunChecks(service, invoice)
           decision == Aggregate(checks)
       IN  /\ odoo_posts' = IF decision.sync
                            THEN Append(odoo_posts, invoice.invoice_id)
                            ELSE odoo_posts
           /\ results' = Append(results,
                                ProcessingResult(invoice, checks,
                                                 decision.final_status,
                                                 decision.risk_score))
    /\ UNCHANGED <<service, engine_vars, fin_vars, pdf_vars>>

\* ComplianceService(): the reference data, or the empty tables
InitService ==
    /\ service \in {LoadedResources, EmptyResources}
    /\ results = <<>>
    /\ odoo_posts = <<>>
    /\ NoWorkflows
    /\ NoCalculator
    /\ NoProcessor

NextService == \E invoice \in ServiceInvoices : process_invoice(invoice)

SpecService == InitService /\ [][NextService]_vars

\* ------------------------------------------------------------------------
\* Properties
\* ------------------------------------------------------------------------

IsPrefix(s, t) == Len(s) <= Len(t) /\ SubSeq(t, 1, Len(s)) = s
Last(s) == s[Len(s)]

\* While a start_workflow call is in progress it works on the newest object.
Running == Len(heap)
\* the step with which the running start_workflow call returns
Returns == pc # "idle" /\ pc' = "idle"

\* how ContextMemory classifies each vendor name offered
VendorNames == {invoice.vendor_name : invoice \in Invoices}
Classified == [v \in VendorNames |-> retrieve_context(v).risk]
RiskOf(o) == Classified[heap[o].invoice.vendor_name]

\* the amounts offered that exceed 10000
TenThousand == FromParts(<<1, 0, 0>>, <<>>)
AmountsAboveTenThousand ==
    {a \in DOMAIN Floats : DecGt(to_decimal(Floats[a].amount).d, TenThousand)}

AutoApprovedEntry == "Auto-Approval Logic satisfied. Transaction Released."
CfoApprovedEntry == "Signal Received: CFO APPROVED. Resuming..."
CfoRejectedEntry == "Signal Received: CFO REJECTED. Terminating."

StatusEdges ==
    { <<PENDING, PROCESSING>>,
      <<PROCESSING, AWAITING_HUMAN>>, <<PROCESSING, APPROVED>>,
      <<AWAITING_HUMAN, APPROVED>>, <<AWAITING_HUMAN, REJECTED>> }

\* C1: every step creates contexts in PENDING, removes none, and changes the
\* status of an existing context only along PENDING -> PROCESSING,
\* PROCESSING -> AWAITING_HUMAN | APPROVED, AWAITING_HUMAN -> APPROVED |
\* REJECTED.
C1_StatusEdgesOnly ==
    [][ /\ DOMAIN heap \subseteq DOMAIN heap'
        /\ \A o \in DOMAIN heap' \ DOMAIN heap : heap'[o].status = PENDING
        /\ \A o \in DOMAIN heap :
              \/ heap'[o].status = heap[o].status
              \/ <<heap[o].status, heap'[o].status>> \in StatusEdges ]_vars

\* one context went PENDING -> PROCESSING -> AWAITING_HUMAN -> REJECTED,
\* another PENDING -> PROCESSING -> APPROVED
C1_Witness ==
    \E o, q \in DOMAIN heap :
        /\ heap[o].status = REJECTED
        /\ heap[q].status = APPROVED
        /\ Last(heap[q].logs) = AutoApprovedEntry

\* C2: when start_workflow returns for a vendor that is not HIGH risk and
\* the validator reported the implied math invalid, or the math step raised,
\* the workflow is AWAITING_HUMAN with a pending reason (so it is neither
\* auto-approved nor auto-rejected).
C2_FailedMathAwaitsHuman ==
    [][ (/\ Returns
         /\ RiskOf(Running) # "HIGH"
         /\ math_result'[Running].ran
         /\ (~math_result'[Running].is_valid
                \/ math_result'[Running].raised # "None"))
        => /\ heap'[Running].status = AWAITING_HUMAN
           /\ heap'[Running].human_action_needed # NoneValue ]_vars

\* C3: a context that is APPROVED or REJECTED keeps its status, pending
\* reason and audit log through every later step.
C3_TerminalAbsorbing ==
    [][ \A o \in DOMAIN heap :
            heap[o].status \in {APPROVED, REJECTED}
            => /\ o \in DOMAIN heap'
               /\ heap'[o].status = heap[o].status
               /\ heap'[o].human_action_needed = heap[o].human_action_needed
               /\ heap'[o].logs = heap[o].logs ]_vars

\* a rejected context, a later workflow started after it, and then a signal
\* sent to the id of the rejected one
C3_Witness ==
    /\ pc = "idle"
    /\ \E o, q \in DOMAIN heap :
          /\ o < q
          /\ heap[o].status = REJECTED
          /\ last_signal.id = heap[o].workflow_id

\* C4: the ids returned by start_workflow are pairwise different, so the
\* registry holds one entry per call and each entry is the context that the
\* call created.
C4_IdsUnique ==
    /\ \A o, q \in DOMAIN heap :
          o # q => heap[o].workflow_id # heap[q].workflow_id
    /\ Cardinality(DOMAIN active_workflows) = Len(heap)
    /\ \A o \in DOMAIN heap : active_workflows[heap[o].workflow_id] = o

\* C5: for a vendor that ContextMemory classifies HIGH, the validator is
\* never run, the context is never APPROVED while its start_workflow call is
\* in progress, and the call returns with the context AWAITING_HUMAN and the
\* high-risk reason, whatever the amount.
C5_HighRiskAwaitsHuman ==
    [][ \A o \in DOMAIN heap' :
            Classified[heap'[o].invoice.vendor_name] = "HIGH"
            => /\ ~math_result'[o].ran
               /\ (pc # "idle" /\ o = Running)
                  => /\ heap'[o].status # APPROVED
                     /\ pc' = "idle"
                        => /\ heap'[o].status = AWAITING_HUMAN
                           /\ heap'[o].human_action_needed = HighRiskReason ]_vars

\* a HIGH risk vendor with an amount above 10000 is held by the high-risk
\* gate
C5_Witness ==
    /\ pc = "idle"
    /\ \E o \in DOMAIN heap :
          /\ RiskOf(o) = "HIGH"
          /\ heap[o].invoice.amount \in AmountsAboveTenThousand
          /\ heap[o].status = AWAITING_HUMAN
          /\ heap[o].human_action_needed = HighRiskReason

\* C6: when start_workflow returns for a vendor that is not HIGH risk and
\* the math step raised nothing, the context is AWAITING_HUMAN with the
\* large-transaction reason exactly when amount > 10000, be the math valid
\* or not.
C6_LargeTransactionGate ==
    [][ (/\ Returns
         /\ RiskOf(Running) # "HIGH"
         /\ math_result'[Running].ran
         /\ math_result'[Running].raised = "None")
        => ((/\ heap'[Running].status = AWAITING_HUMAN
             /\ heap'[Running].human_action_needed = LargeTransactionReason)
            <=> heap[Running].invoice.amount \in AmountsAboveTenThousand) ]_vars

\* 12100.0 validates and is gated; 10000.0 does not validate and is not
C6_Witness ==
    \E o, q \in DOMAIN heap :
        /\ heap[o].invoice.amount = "12100.0"
        /\ math_result[o].ran /\ math_result[o].is_valid
        /\ heap[o].human_action_needed = LargeTransactionReason
        /\ heap[q].invoice.amount = "10000.0"
        /\ math_result[q].ran /\ ~math_result[q].is_valid
        /\ heap[q].status = APPROVED

\* C7: a signal for a registered context that is AWAITING_HUMAN makes it
\* APPROVED (approved) or REJECTED (not approved), clears the pending reason
\* and appends exactly one audit entry, whatever the reason was; nothing a
\* gate computed (memory context, math result) is touched.
C7_SignalResolves ==
    [][ \A id \in WorkflowIds, approved \in BOOLEAN :
            (/\ signal_human_approval(id, approved)
             /\ id \in DOMAIN active_workflows
             /\ heap[active_workflows[id]].status = AWAITING_HUMAN)
            => LET o == active_workflows[id]
               IN  /\ heap'[o].status = IF approved THEN APPROVED ELSE REJECTED
                   /\ heap'[o].human_action_needed = NoneValue
                   /\ Len(heap'[o].logs) = Len(heap[o].logs) + 1
                   /\ IsPrefix(heap[o].logs, heap'[o].logs)
                   /\ heap'[o].memory_context = heap[o].memory_context
                   /\ heap'[o].math_verification = heap[o].math_verification
                   /\ math_result' = math_result ]_vars

\* one context held by the high-risk gate was approved, one held by the
\* large-transaction gate was rejected
C7_Witness ==
    \E o, q \in DOMAIN heap :
        /\ heap[o].status = APPROVED
        /\ Last(heap[o].logs) = CfoApprovedEntry
        /\ heap[o].logs[Len(heap[o].logs) - 1] = "Workflow Paused: " \o HighRiskReason
        /\ heap[o].human_action_needed = NoneValue
        /\ heap[q].status = REJECTED
        /\ heap[q].logs[Len(heap[q].logs) - 1]
              = "Workflow Paused: " \o LargeTransactionReason
        /\ heap[q].human_action_needed = NoneValue

\* C8: a signal for an id that is not registered, or for a context that is
\* not AWAITING_HUMAN, completes and leaves every context and the registry
\* as they were.
C8_InvalidSignalNoOp ==
    [][ \A id \in WorkflowIds, approved \in BOOLEAN :
            (/\ signal_human_approval(id, approved)
             /\ \/ id \notin DOMAIN active_workflows
                \/ heap[active_workflows[id]].status # AWAITING_HUMAN)
            => /\ heap' = heap
               /\ active_workflows' = active_workflows
               /\ pc' = "idle" ]_vars

\* the latest signal named an id that is not registered, while another
\* context is registered
C8_Witness ==
    /\ heap # <<>>
    /\ last_signal.id \in WorkflowIds
    /\ last_signal.id \notin DOMAIN active_workflows

\* C9: start_workflow returns with the new context AWAITING_HUMAN or
\* APPROVED, and a context becomes REJECTED only by a signal with approved
\* false sent to its id while it is AWAITING_HUMAN.
C9_StartEndsAwaitingOrApproved ==
    [][ /\ Returns => heap'[Running].status \in {AWAITING_HUMAN, APPROVED}
        /\ \A o \in DOMAIN heap :
              (heap'[o].status = REJECTED /\ heap[o].status # REJECTED)
              => /\ pc = "idle"
                 /\ heap[o].status = AWAITING_HUMAN
                 /\ last_signal'.approved = FALSE
                 /\ last_signal'.id \in DOMAIN active_workflows
                 /\ active_workflows[last_signal'.id] = o ]_vars

\* a start_workflow call has returned with an auto-approved context and
\* another with a context held for the human
C9_Witness ==
    /\ pc = "idle"
    /\ last_signal = NoSignal
    /\ \E o, q \in DOMAIN heap :
          /\ heap[o].status = APPROVED
          /\ heap[q].status = AWAITING_HUMAN

\* C10: every step leaves the log of every context a prefix of its new log,
\* a context is created with a first entry, and a step that changes the
\* status of a context appends at least one entry to its log.
C10_AuditLogAppendOnly ==
    [][ /\ \A o \in DOMAIN heap :
              /\ o \in DOMAIN heap'
              /\ IsPrefix(heap[o].logs, heap'[o].logs)
              /\ heap'[o].status # heap[o].status
                 => Len(heap'[o].logs) > Len(heap[o].logs)
        /\ \A o \in DOMAIN heap' \ DOMAIN heap : Len(heap'[o].logs) >= 1 ]_vars

\* a context that was initialized, processed, paused and rejected holds the
\* five entries in that order
C10_Witness ==
    \E o \in DOMAIN heap :
        /\ heap[o].status = REJECTED
        /\ Len(heap[o].logs) = 5
        /\ heap[o].logs[2] = "Agent execution started."
        /\ Last(heap[o].logs) = CfoRejectedEntry

\* ------------------------------------------------------------------------
\* Properties of ComplianceService
\* ------------------------------------------------------------------------

\* how many of the checks of a result carry the status
StatusCount(r, status) ==
    Cardinality({i \in DOMAIN r.checks : r.checks[i].status = status})

\* C11: the decision of process_invoice follows from how many of its checks
\* failed and how many warned: at least one FAIL gives REJECTED with risk
\* score 100; no FAIL and at least one WARNING gives DRAFT with risk score
\* 50; four PASS give APPROVED with risk score 0.
C11_AggregationByStatuses ==
    \A k \in DOMAIN results :
        LET r == results[k]
            fails == StatusCount(r, FAIL)
            warns == StatusCount(r, WARNING)
        IN  /\ Len(r.checks) = 4
            /\ fails >= 1 => r.final_status = "REJECTED" /\ r.risk_score = 100
            /\ fails = 0 /\ warns >= 1 =>
                   r.final_status = "DRAFT" /\ r.risk_score = 50
            /\ fails = 0 /\ warns = 0 =>
                   r.final_status = "APPROVED" /\ r.risk_score = 0

\* a result rejected for a single FAIL beside a WARNING, then a result held
\* as DRAFT for a single WARNING
C11_Witness ==
    /\ Len(results) = 2
    /\ StatusCount(results[1], FAIL) = 1
    /\ StatusCount(results[1], WARNING) = 1
    /\ results[1].final_status = "REJECTED"
    /\ StatusCount(results[2], FAIL) = 0
    /\ StatusCount(results[2], WARNING) = 1
    /\ results[2].final_status = "DRAFT"

\* the results among the first k whose final status is APPROVED
ApprovedAmong(k) ==
    {j \in 1..k : results[j].final_status = "APPROVED"}

\* C12: every process_invoice call hands its invoice to the system of record
\* once when it returns APPROVED and not at all when it returns DRAFT or
\* REJECTED: the posts are as many as the APPROVED results, and a call adds
\* one post exactly when its result is APPROVED.
C12_OnePostPerApproved ==
    [][\A invoice \in ServiceInvoices :
          process_invoice(invoice) =>
              /\ Len(odoo_posts) = Cardinality(ApprovedAmong(Len(results)))
              /\ Len(results') = Len(results) + 1
              /\ Len(odoo_posts') - Len(odoo_posts) =
                    (IF Last(results').final_status = "APPROVED" THEN 1 ELSE 0)
              /\ Last(results').final_status = "APPROVED" =>
                    Last(odoo_posts') = invoice.invoice_id]_vars

\* two calls: one approved and posted, one held as DRAFT and not posted
C12_Witness ==
    /\ Len(results) = 2
    /\ results[1].final_status = "APPROVED"
    /\ results[2].final_status = "DRAFT"
    /\ odoo_posts = <<results[1].invoice.invoice_id>>

\* the IBANs of the vendor directory, cleared of spaces
DirectoryIbans == {RemoveSpaces(service.vendors[i].iban) : i \in DOMAIN service.vendors}

\* C13: the routing check compares the invoice IBAN, cleared of whitespace,
\* with the directory's IBANs: FAIL for the sentinel "UNKNOWN"; FAIL, with
\* the offending IBAN in the message, when the cleared IBAN is not in the
\* directory; PASS when it is, so that an invoice IBAN equal to a directory
\* IBAN up to whitespace passes.
C13_RoutingComparesNormalizedIban ==
    \A k \in DOMAIN results :
        LET iban == results[k].invoice.iban
            routing == results[k].checks[1]
        IN  /\ routing.check_name = "Financial Routing"
            /\ IF iban = UNKNOWN
               THEN routing.status = FAIL
               ELSE IF RemoveSpaces(iban) \in DirectoryIbans
                    THEN routing.status = PASS
                    ELSE /\ routing.status = FAIL
                         /\ routing.message = <<"Unauthorized IBAN detected: ">> \o iban

\* the ledger rows of a department, compared without case or surrounding
\* blanks
LedgerRows(department) ==
    Matching(service.budgets, "department", Lower(Strip(department)))

\* C14: the budget check matches the department case-insensitively against
\* the ledger and returns WARNING when the department is the sentinel
\* "Unknown", even if the ledger has a row for it; otherwise FAIL when no row
\* matches; otherwise FAIL when the amount is strictly above the remaining
\* budget; otherwise PASS, an amount equal to the remaining budget included.
C14_BudgetCheck ==
    \A k \in DOMAIN results :
        LET invoice == results[k].invoice
            budget == results[k].checks[3]
            rows == LedgerRows(invoice.department)
        IN  /\ budget.check_name = "Budget Check"
            /\ budget.status =
                  (IF invoice.department = DeptUnknown THEN WARNING
                   ELSE IF rows = <<>> THEN FAIL
                   ELSE IF invoice.amount > rows[1].remaining_budget THEN FAIL
                   ELSE PASS)

\* a spend equal to the remaining budget, which passed, then the sentinel
\* department, which has a ledger row and is warned about all the same
C14_Witness ==
    /\ Len(results) = 2
    /\ LedgerRows(results[1].invoice.department) # <<>>
    /\ results[1].invoice.amount =
          LedgerRows(results[1].invoice.department)[1].remaining_budget
    /\ results[1].checks[3].status = PASS
    /\ results[2].invoice.department = DeptUnknown
    /\ LedgerRows(DeptUnknown) # <<>>
    /\ results[2].checks[3].status = WARNING

\* ------------------------------------------------------------------------
\* FinancialCalculator.validate_invoice_math called on its own
\*
\* The arguments are floats as a caller passes them: amounts in cents,
\* one with a third decimal, and subtotals and taxes derived as
\* _execute_step derives them (amount / 1.21, amount - subtotal), which
\* have 16 or 17 significant digits.  One total is a text.
\* ------------------------------------------------------------------------

Subtotals ==
    {FloatVal(<<1, 0>>, <<>>), FloatVal(<<10>>, <<12, 50>>), FloatVal(<<0>>, <<10>>)}

Taxes ==
    {FloatVal(<<21>>, <<>>), FloatVal(<<21>>, <<5>>), FloatVal(<<21>>, <<6>>),
     FloatVal(<<20>>, <<95>>), FloatVal(<<20>>, <<94>>), FloatVal(<<10>>, <<>>),
     FloatVal(<<2>>, <<13>>), FloatVal(<<2>>, <<8>>), FloatVal(<<0>>, <<2>>)}

Totals ==
    {FloatVal(<<1, 21>>, <<>>), FloatVal(<<1, 21>>, <<5>>),
     FloatVal(<<1, 21>>, <<6>>), FloatVal(<<1, 20>>, <<95>>),
     FloatVal(<<1, 20>>, <<94>>), FloatVal(<<1, 10>>, <<>>),
     FloatVal(<<1, 25>>, <<>>), FloatVal(<<12>>, <<25, 50>>),
     FloatVal(<<12>>, <<20, 50>>), FloatVal(<<0>>, <<12>>), TextVal("abc")}

\* 1730.27 / 1.21 and 120.0 / 1.21 with their taxes, against the amount
\* they come from and against another total
DerivedTriples ==
    {<<FloatVal(<<14, 29>>, <<97, 52, 6, 61, 15, 70, 20>>),
       FloatVal(<<3, 0>>, <<29, 47, 93, 38, 84, 29, 75>>),
       FloatVal(<<18, 30>>, <<52>>)>>,
     <<FloatVal(<<14, 29>>, <<97, 52, 6, 61, 15, 70, 20>>),
       FloatVal(<<3, 0>>, <<29, 47, 93, 38, 84, 29, 75>>),
       FloatVal(<<17, 30>>, <<27>>)>>,
     <<FloatVal(<<99>>, <<17, 35, 53, 71, 90, 8, 27>>),
       FloatVal(<<20>>, <<82, 64, 46, 28, 9, 91, 73, 20>>),
       FloatVal(<<1, 20>>, <<>>)>>,
     <<FloatVal(<<99>>, <<17, 35, 53, 71, 90, 8, 27>>),
       FloatVal(<<20>>, <<82, 64, 46, 28, 9, 91, 73, 20>>),
       FloatVal(<<1, 25>>, <<>>)>>}

\* tax_rate, in hundredths; 10.125 * 0.20 = 2.025 is a rounding tie
TaxRates == {0, 10, 20, 21}

FinArgs ==
    {[subtotal |-> t[1], tax_amount |-> t[2], total |-> t[3], tax_rate |-> rate] :
        t \in (Subtotals \X Taxes \X Totals) \cup DerivedTriples,
        rate \in TaxRates}

InitCalculator ==
    /\ fin_args \in FinArgs
    /\ fin_result = <<>>
    /\ NoWorkflows
    /\ NoService
    /\ NoProcessor

\* the call validate_invoice_math(subtotal, tax_amount, total, tax_rate)
Validate ==
    /\ fin_result = <<>>
    /\ fin_result' = <<validate_invoice_math(fin_args.subtotal,
                                             fin_args.tax_amount,
                                             fin_args.total,
                                             fin_args.tax_rate)>>
    /\ UNCHANGED <<fin_args, engine_vars, service_vars, pdf_vars>>

NextCalculator == Validate

SpecCalculator == InitCalculator /\ [][NextCalculator]_vars

\* ------------------------------------------------------------------------
\* Properties of FinancialCalculator
\* ------------------------------------------------------------------------

\* the call returned or raised, and its three amounts were numbers
Validated ==
    /\ fin_result # <<>>
    /\ fin_args.subtotal.tag = "float"
    /\ fin_args.tax_amount.tag = "float"
    /\ fin_args.total.tag = "float"

ArgSubtotal == to_decimal(fin_args.subtotal).d
ArgTax == to_decimal(fin_args.tax_amount).d
ArgTotal == to_decimal(fin_args.total).d

\* round_half_up(subtotal * rate, 2), for the subtotals offered, none of
\* which is negative
ExpectedTax == QuantizeHalfUp(DecMulRate(ArgSubtotal, fin_args.tax_rate))

Get(debug, key) == debug[CHOOSE i \in DOMAIN debug : debug[i][1] = key][2]

\* total - (subtotal + tax), exactly
ExactDiff == DecSub(ArgTotal, DecAdd(ArgSubtotal, ArgTax))

\* the call reported an arithmetic error with a diff in its payload
ArithmeticErrorReported ==
    /\ fin_result[1].raised = "None"
    /\ ~fin_result[1].valid
    /\ fin_result[1].reason = "Arithmetic Error"
    /\ \E i \in DOMAIN fin_result[1].debug : fin_result[1].debug[i][1] = "diff"

\* the diff of the payload, read as the decimal its repr() writes
ReportedDiff == to_decimal(Get(fin_result[1].debug, "diff")).d

TimesTenToThe16(v) == [i \in Limbs |-> IF i > 8 THEN v[i - 8] ELSE 0]

Digits == <<"0", "1", "2", "3", "4", "5", "6", "7", "8", "9">>
IsDigit(c) == \E k \in DOMAIN Digits : Digits[k] = c
DigitValue(c) == (CHOOSE k \in DOMAIN Digits : Digits[k] = c) - 1
IsLetter(c) ==
    \/ \E k \in DOMAIN UpperChars : UpperChars[k] = c
    \/ \E k \in DOMAIN LowerChars : LowerChars[k] = c
IsWhitespace(c) == c \in {" ", "\n"}

UpperChar(c) ==
    IF \E k \in DOMAIN LowerChars : LowerChars[k] = c
    THEN UpperChars[CHOOSE k \in DOMAIN LowerChars : LowerChars[k] = c]
    ELSE c

\* str.upper()
Upper(s) == [k \in DOMAIN s |-> UpperChar(s[k])]

\* `c in s`
Has(s, c) == \E k \in DOMAIN s : s[k] = c

\* str.rfind, counting positions from 1 (0 when c does not occur)
rfind(s, c) ==
    IF Has(s, c)
    THEN CHOOSE k \in DOMAIN s : s[k] = c /\ \A j \in DOMAIN s : s[j] = c => j <= k
    ELSE 0

\* str.replace of one character by a text
replace(s, old, new) ==
    LET F[k \in 0..Len(s)] ==
            IF k = 0 THEN <<>>
            ELSE F[k - 1] \o (IF s[k] = old THEN new ELSE <<s[k]>>)
    IN  F[Len(s)]

\* value_str.split(',')[-1]
LastPart(s) == SubSeq(s, rfind(s, ",") + 1, Len(s))

\* digits, most significant first, as base-100 pairs
PairUp(ds) == [k \in 1..(Len(ds) \div 2) |-> 10 * ds[2 * k - 1] + ds[2 * k]]
DigitsOf(s) == [k \in DOMAIN s |-> DigitValue(s[k])]
IntDigitPairs(s) ==
    LET ds == DigitsOf(s)
        even == IF Len(ds) % 2 = 1 THEN <<0>> \o ds ELSE ds
    IN  IF ds = <<>> THEN <<0>> ELSE PairUp(even)
FracDigitPairs(s) ==
    LET ds == DigitsOf(s)
        even == IF Len(ds) % 2 = 1 THEN ds \o <<0>> ELSE ds
    IN  IF ds = <<>> THEN <<0>> ELSE PairUp(even)

\* float(value_str) for a text of digits, '.', ',' and letters: digits with
\* at most one '.', and at least one digit, else ValueError.  The texts
\* offered have at most DblDig digits, which a float holds exactly.
float_of_str(s) ==
    IF \/ \E k \in DOMAIN s : ~IsDigit(s[k]) /\ s[k] # "."
       \/ Cardinality({k \in DOMAIN s : s[k] = "."}) > 1
       \/ ~\E k \in DOMAIN s : IsDigit(s[k])
    THEN [raised |-> "ValueError", value |-> FloatVal(<<0>>, <<>>)]
    ELSE LET dot == IF Has(s, ".") THEN rfind(s, ".") ELSE Len(s) + 1
             ip == IntDigitPairs(SubSeq(s, 1, dot - 1))
             fp == FracDigitPairs(SubSeq(s, dot + 1, Len(s)))
         IN  [raised |-> "None", value |-> float_of(FromParts(ip, fp))]

\* the test `len(parts[-1]) == 2` of the comma-only branch
CommaIsDecimal_ThreeDigits(value_str) == Len(LastPart(value_str)) = 3
CommaIsDecimal(value_str) == Len(LastPart(value_str)) = 2

\* _normalize_currency_string
normalize_currency_string(value_str) ==
    LET cleaned ==
            IF Has(value_str, ",") /\ Has(value_str, ".")
            THEN IF rfind(value_str, ",") > rfind(value_str, ".")
                 THEN replace(replace(value_str, ".", <<>>), ",", <<".">>)
                 ELSE replace(value_str, ",", <<>>)
            ELSE IF Has(value_str, ",")
            THEN IF CommaIsDecimal(value_str)
                 THEN replace(value_str, ",", <<".">>)
                 ELSE replace(value_str, ",", <<>>)
            ELSE value_str
        parsed_float == float_of_str(cleaned)
    IN  IF parsed_float.raised = "ValueError"
        THEN FloatVal(<<0>>, <<>>)
        ELSE parsed_float.value

\* A document is its lines.  A line carries the text as printed, the
\* pattern it matches (`cue`) and the text the pattern's group captures on
\* this line (`value`).
Line(text, cue, value) == [text |-> text, cue |-> cue, value |-> value]
Labelled(label, cue, value) == Line(label \o value, cue, value)

TextInvoice == <<"I", "N", "V", "O", "I", "C", "E">>
LabelVendor == <<"V", "e", "n", "d", "o", "r", ":", " ">>
LabelDate == <<"D", "a", "t", "e", ":", " ">>
LabelInvoiceId == <<"I", "n", "v", "o", "i", "c", "e", " ", "#", ":", " ">>
LabelIban == <<"I", "B", "A", "N", ":", " ">>
LabelDepartment == <<"D", "e", "p", "a", "r", "t", "m", "e", "n", "t", ":", " ">>
LabelTotal == <<"T", "o", "t", "a", "l", " ", "A", "m", "o", "u", "n", "t", ":",
                " ", "E", "U", "R", " ">>
GoodDate == <<"2", "0", "2", "4", "-", "0", "5", "-", "0", "1">>
BadDate == <<"2", "0", "2", "4", "-", "1", "3", "-", "4", "5">>
InvoiceId == <<"I", "N", "V", "-", "2", "0", "2", "4", "-", "0", "0", "0", "1">>
IbanFull == <<"N", "L", "9", "1", "A", "B", "N", "A", "0", "4", "1", "7", "1",
              "6", "4", "3", "0", "0">>
UnknownVendor == <<"U", "n", "k", "n", "o", "w", "n", " ", "V", "e", "n", "d",
                   "o", "r">>

\* what the group [\d\.,]+ of AMOUNT_PATTERN can capture
AmountStrings ==
    {<<"1", ".", "2", "3", "4", ",", "5", "6">>,
     <<"1", ",", "2", "3", "4", ".", "5", "6">>, <<",", "5", "0">>,
     <<"1", "2", ",", "0", "0", "0">>, <<"1", "0", "0", ".", "0", "0">>,
     <<"1", "5", "0", "0">>, <<"1", ",", "2", "3", "4", ",", "5", "6">>,
     <<"1", ".", "2", "3", "4", ".", "5", "6", "7", ",", "8", "9">>,
     <<"1", ",", "2", "3", "4", ",", "5", "6", "7", ".", "8", "9">>,
     <<"0", ",", "5">>, <<"1", ".", "2", "3", "4">>,
     <<"1", ".", "2", ".", "3">>, <<"0", ".", "0", "0">>, <<",">>,
     <<"1", "2", ",", "0", "0">>, <<"5", ".">>}

\* the texts _extract_text_from_pdf can hand over: no text at all, or lines
\* in the order of the generator's first layout, each present or not
Documents ==
    {h \o v \o d \o i \o b \o p \o a :
        h \in {<<>>, <<Line(TextInvoice, "none", <<>>)>>},
        v \in {<<>>, <<Labelled(LabelVendor, "vendor", AcmeBV)>>},
        d \in {<<>>, <<Labelled(LabelDate, "date", GoodDate)>>,
               <<Labelled(LabelDate, "date", BadDate)>>},
        i \in {<<>>, <<Labelled(LabelInvoiceId, "invoice_id", InvoiceId)>>,
               <<Line(InvoiceId, "bare_invoice_id", InvoiceId)>>},
        b \in {<<>>, <<Labelled(LabelIban, "iban", IbanFull)>>,
               <<Labelled(LabelIban, "iban", IbanAcmeSpaced)>>},
        p \in {<<>>, <<Labelled(LabelDepartment, "department", DeptIT)>>},
        a \in {<<>>} \cup {<<Labelled(LabelTotal, "amount", t)>> :
                               t \in AmountStrings}}

\* re.search: the first line on which the pattern matches (0: no match)
Search(text, cues) ==
    IF \E k \in DOMAIN text : text[k].cue \in cues
    THEN CHOOSE k \in DOMAIN text :
            /\ text[k].cue \in cues
            /\ \A j \in DOMAIN text : text[j].cue \in cues => k <= j
    ELSE 0

ignore_list ==
    {<<"I", "N", "V", "O", "I", "C", "E">>, <<"B", "I", "L", "L">>,
     <<"R", "E", "C", "E", "I", "P", "T">>,
     <<"C", "R", "E", "D", "I", "T", " ", "N", "O", "T", "E">>}

\* _extract_vendor
extract_vendor(text) ==
    LET k == Search(text, {"vendor"})
        named == {j \in DOMAIN text :
                     /\ Strip(text[j].text) # <<>>
                     /\ Upper(Strip(text[j].text)) \notin ignore_list}
    IN  IF k # 0 THEN Strip(text[k].value)
        ELSE IF named # {}
        THEN Strip(text[CHOOSE j \in named : \A i \in named : j <= i].text)
        ELSE UnknownVendor

\* the text from the group's start on line k to the end of the document
RECURSIVE TextFrom(_, _)
TextFrom(text, k) ==
    IF k = Len(text) THEN text[k].value
    ELSE text[k].value \o <<"\n">>
         \o (LET rest == [text EXCEPT ![k + 1].value = text[k + 1].text]
             IN  TextFrom(rest, k + 1))

\* what the group [A-Z]{2}[0-9A-Z\s]{13,32} of IBAN_PATTERN captures at the
\* start of s, matching greedily and ignoring case (<<>>: no match)
IbanGroup(s) ==
    LET fits == {n \in 0..Len(s) :
                    /\ n <= 34
                    /\ \A j \in 1..n :
                          IsLetter(s[j]) \/ IsDigit(s[j]) \/ IsWhitespace(s[j])}
        n == CHOOSE m \in fits : \A j \in fits : j <= m
    IN  IF n >= 15 /\ IsLetter(s[1]) /\ IsLetter(s[2])
        THEN SubSeq(s, 1, n) ELSE <<>>

\* _extract_iban
extract_iban(text) ==
    LET hits == {k \in DOMAIN text :
                    text[k].cue = "iban" /\ IbanGroup(TextFrom(text, k)) # <<>>}
    IN  IF hits # {}
        THEN LET k == CHOOSE j \in hits : \A i \in hits : j <= i
             IN  SelectSeq(IbanGroup(TextFrom(text, k)),
                           LAMBDA c : ~IsWhitespace(c))
        ELSE UNKNOWN

\* _extract_invoice_id: the second pattern has no group, match.group(1)
\* raises IndexError
extract_invoice_id(text) ==
    LET labelled == Search(text, {"invoice_id"})
        bare == Search(text, {"invoice_id", "bare_invoice_id"})
    IN  IF labelled # 0
        THEN [raised |-> "None", value |-> Strip(text[labelled].value)]
        ELSE IF bare # 0
        THEN [raised |-> "IndexError", value |-> <<>>]
        ELSE [raised |-> "None", value |-> UNKNOWN]

DaysInMonth(year, month) ==
    IF month = 2
    THEN IF year % 4 = 0 /\ (year % 100 # 0 \/ year % 400 = 0) THEN 29 ELSE 28
    ELSE IF month \in {4, 6, 9, 11} THEN 30 ELSE 31

\* datetime.strptime(s, "%Y-%m-%d").date() of a text dddd-dd-dd; a date is
\* written as the number yyyymmdd
strptime(s) ==
    LET year == 1000 * DigitValue(s[1]) + 100 * DigitValue(s[2])
                + 10 * DigitValue(s[3]) + DigitValue(s[4])
        month == 10 * DigitValue(s[6]) + DigitValue(s[7])
        day == 10 * DigitValue(s[9]) + DigitValue(s[10])
    IN  IF year >= 1 /\ month \in 1..12 /\ day \in 1..DaysInMonth(year, month)
        THEN [raised |-> "None",
              value |-> 10000 * year + 100 * month + day]
        ELSE [raised |-> "ValueError", value |-> NoDate]

\* _extract_date: the labelled pattern, then a date anywhere; a match that
\* is no calendar date is skipped
extract_date(text) ==
    LET labelled == Search(text, {"date"})
        anywhere == Search(text, {"date", "bare_date"})
    IN  IF labelled # 0 /\ strptime(text[labelled].value).raised = "None"
        THEN strptime(text[labelled].value).value
        ELSE IF anywhere # 0 /\ strptime(text[anywhere].value).raised = "None"
        THEN strptime(text[anywhere].value).value
        ELSE NoDate

\* _extract_amount, with the call of _normalize_currency_string it makes
extract_amount(text) ==
    LET k == Search(text, {"amount"})
    IN  IF k # 0
        THEN [value |-> normalize_currency_string(Strip(text[k].value)),
              calls |-> <<[value_str |-> Strip(text[k].value),
                           result |-> normalize_currency_string(
                                          Strip(text[k].value))]>>]
        ELSE [value |-> FloatVal(<<0>>, <<>>), calls |-> <<>>]

\* _extract_department
extract_department(text) ==
    LET k == Search(text, {"department"})
    IN  IF k # 0 THEN Strip(text[k].value) ELSE DeptUnknown

\* Invoice(...): the validation of `amount: float = Field(..., gt=0)`
InvoiceModel(invoice_id, vendor_name, iban, date, amount, department) ==
    IF DecGt(to_decimal(amount).d, DecZero)
    THEN [raised |-> "None",
          value |-> [invoice_id |-> invoice_id, vendor_name |-> vendor_name,
                     iban |-> iban, date |-> date, amount |-> amount,
                     department |-> department]]
    ELSE [raised |-> "ValidationError", value |-> NoneValue]

\* parse, from the text _extract_text returned: what it returns or raises,
\* the exception it wrapped, and the normalisation calls made on the way
ParseOutcome(text) ==
    LET id == extract_invoice_id(text)
        amount == extract_amount(text)
        invoice == InvoiceModel(id.value, extract_vendor(text),
                                extract_iban(text), extract_date(text),
                                amount.value, extract_department(text))
    IN  IF text = <<>>
        THEN [raised |-> "RuntimeError", cause |-> "ValueError",
              invoice |-> NoneValue, calls |-> <<>>]
        ELSE IF id.raised # "None"
        THEN [raised |-> "RuntimeError", cause |-> id.raised,
              invoice |-> NoneValue, calls |-> <<>>]
        ELSE IF invoice.raised # "None"
        THEN [raised |-> "RuntimeError", cause |-> invoice.raised,
              invoice |-> NoneValue, calls |-> amount.calls]
        ELSE [raised |-> "None", cause |-> "None",
              invoice |-> invoice.value, calls |-> amount.calls]

parse ==
    /\ parsed = <<>>
    /\ LET outcome == ParseOutcome(raw_text)
       IN  /\ parsed' = <<[raised |-> outcome.raised, cause |-> outcome.cause,
                           invoice |-> outcome.invoice]>>
           /\ normalized' = outcome.calls
    /\ UNCHANGED <<raw_text, engine_vars, service_vars, fin_vars>>

InitProcessor ==
    /\ NoWorkflows
    /\ NoService
    /\ NoCalculator
    /\ raw_text \in Documents
    /\ parsed = <<>>
    /\ normalized = <<>>

NextProcessor == parse

SpecProcessor == InitProcessor /\ [][NextProcessor]_vars

\* ------------------------------------------------------------------------
\* PDFProcessor: properties
\* ------------------------------------------------------------------------

HasCue(cues) == Search(raw_text, cues) # 0

\* every line of the document is blank or a generic heading
OnlyHeadings ==
    \A k \in DOMAIN raw_text :
        \/ Strip(raw_text[k].text) = <<>>
        \/ Upper(Strip(raw_text[k].text)) \in ignore_list

\* C17: parse fails only on a document without text; on any other document
\* it returns an Invoice, and a field whose cues the text lacks carries its
\* sentinel: invoice id and IBAN "UNKNOWN", vendor "Unknown Vendor",
\* department "Unknown", amount 0.0, no date.
C17_SentinelsInsteadOfFailure ==
    parsed # <<>> =>
        /\ (parsed[1].raised # "None") <=> (raw_text = <<>>)
        /\ parsed[1].raised = "None" =>
            /\ ~HasCue({"invoice_id", "bare_invoice_id"})
                   => parsed[1].invoice.invoice_id = UNKNOWN
            /\ ~HasCue({"iban"}) => parsed[1].invoice.iban = UNKNOWN
            /\ (~HasCue({"vendor"}) /\ OnlyHeadings)
                   => parsed[1].invoice.vendor_name = UnknownVendor
            /\ ~HasCue({"department"})
                   => parsed[1].invoice.department = DeptUnknown
            /\ ~HasCue({"amount"})
                   => parsed[1].invoice.amount = FloatVal(<<0>>, <<>>)
            /\ ~HasCue({"date", "bare_date"})
                   => parsed[1].invoice.date = NoDate

\* the character the claim reads as the decimal separator of s ("": none)
DecimalSeparator(s) ==
    IF Has(s, ",") /\ Has(s, ".")
    THEN s[IF rfind(s, ",") > rfind(s, ".") THEN rfind(s, ",") ELSE rfind(s, ".")]
    ELSE IF Has(s, ",")
    THEN IF Len(s) - rfind(s, ",") = 2 THEN "," ELSE ""
    ELSE "."

\* s with the decimal separator written '.' and the other separator dropped
LocaleReading(s) ==
    LET sep == DecimalSeparator(s)
        F[k \in 0..Len(s)] ==
            IF k = 0 THEN <<>>
            ELSE F[k - 1] \o (IF s[k] = sep THEN <<".">>
                              ELSE IF s[k] \in {",", "."} THEN <<>>
                              ELSE <<s[k]>>)
    IN  F[Len(s)]

\* C18: _normalize_currency_string returns the number its argument denotes
\* when the right-most of ',' and '.' is read as the decimal separator and
\* the other is dropped, a lone ',' being the decimal point exactly when two
\* characters follow the last ',' and dropped otherwise; a text that still
\* does not parse gives 0.0.  "1.234,56" and "1,234.56" give 1234.56,
\* ",50" gives 0.5 and "12,000" gives 12000.0.
C18_LocaleCorrectNormalization ==
    \A k \in DOMAIN normalized :
        LET s == normalized[k].value_str
            r == normalized[k].result
            read == float_of_str(LocaleReading(s))
        IN  /\ r = IF read.raised = "None" THEN read.value
                   ELSE FloatVal(<<0>>, <<>>)
            /\ s \in {<<"1", ".", "2", "3", "4", ",", "5", "6">>,
                      <<"1", ",", "2", "3", "4", ".", "5", "6">>}
                   => r = FloatVal(<<12, 34>>, <<56>>)
            /\ s = <<",", "5", "0">> => r = FloatVal(<<0>>, <<50>>)
            /\ s = <<"1", "2", ",", "0", "0", "0">>
                   => r = FloatVal(<<1, 20, 0>>, <<>>)

\* a parse that normalised the European amount and returned the Invoice
C18_Witness ==
    /\ parsed # <<>>
    /\ \E k \in DOMAIN normalized :
          /\ normalized[k].value_str = <<"1", ".", "2", "3", "4", ",", "5", "6">>
          /\ normalized[k].result = FloatVal(<<12, 34>>, <<56>>)
          /\ parsed[1].raised = "None"
          /\ parsed[1].invoice.amount = FloatVal(<<12, 34>>, <<56>>)

\* ------------------------------------------------------------------------
\* WorkflowEngine: the demonstration invoice and suspended contexts
\* ------------------------------------------------------------------------

\* C19: a workflow started for the invoice of 120.00 from "Amazon Web
\* Services" has, when its start_workflow call has returned, the vendor
\* classified LOW risk by the memory, no pending reason, status APPROVED and
\* "Auto-Approval Logic satisfied. Transaction Released." as its last entry.
C19_DemoInvoiceLowRiskApproved ==
    \A o \in DOMAIN heap :
        (/\ pc = "idle"
         /\ heap[o].invoice.vendor_name = AmazonWebServices
         /\ heap[o].invoice.amount = "120.0")
        => /\ heap[o].memory_context.risk = "LOW"
           /\ heap[o].human_action_needed = NoneValue
           /\ heap[o].status = APPROVED
           /\ Last(heap[o].logs) =
                  "Auto-Approval Logic satisfied. Transaction Released."

\* what the claim says a suspended context keeps
Suspended(c) ==
    [status |-> c.status, human_action_needed |-> c.human_action_needed,
     logs |-> c.logs]

\* C20: a step that changes the status, the pending reason or the log of a
\* context in AWAITING_HUMAN is a signal_human_approval call for that
\* context's id (no start_workflow call, no step of another workflow and no
\* signal for another id does), and a signal_human_approval call changes no
\* context with another id.
C20_SuspendedUntilOwnSignal ==
    [][ \A o \in DOMAIN heap :
            /\ (/\ heap[o].status = AWAITING_HUMAN
                /\ Suspended(heap'[o]) # Suspended(heap[o]))
               => /\ pc = "idle"
                  /\ pc' = "idle"
                  /\ last_signal'.id = heap[o].workflow_id
            /\ (pc = "idle" /\ pc' = "idle" /\ heap'[o] # heap[o])
               => last_signal'.id = heap[o].workflow_id ]_vars

\* a signal for another id resolved that id's context and the suspended
\* context is as its pause left it
C20_Witness ==
    /\ pc = "idle"
    /\ \E o, q \in DOMAIN heap :
          /\ heap[o].status = AWAITING_HUMAN
          /\ heap[o].human_action_needed = LargeTransactionReason
          /\ Last(heap[o].logs) = "Workflow Paused: " \o LargeTransactionReason
          /\ heap[o].workflow_id # heap[q].workflow_id
          /\ last_signal.id = heap[q].workflow_id
          /\ heap[q].status = REJECTED
          /\ Last(heap[q].logs) = CfoRejectedEntry

\* ------------------------------------------------------------------------
\* ComplianceService: the checklist
\* ------------------------------------------------------------------------

\* C21: every ProcessingResult holds exactly four CheckResults, in the order
\* routing, vendor risk, budget, contract, and each is what its check gives
\* for the invoice, whatever the checks before it gave.
C21_FourChecksInOrder ==
    \A k \in DOMAIN results :
        LET r == results[k]
        IN  /\ Len(r.checks) = 4
            /\ r.checks[1].check_name = "Financial Routing"
            /\ r.checks[2].check_name = "Vendor Risk"
            /\ r.checks[3].check_name = "Budget Check"
            /\ r.checks[4].check_name = "Contract Check"
            /\ \A i \in 1..4 : r.checks[i].status \in {PASS, FAIL, WARNING}
            /\ r.checks[1] = verify_financial_routing(service, r.invoice)
            /\ r.checks[2] = assess_vendor_risk(service, r.invoice)
            /\ r.checks[3] = validate_budgetary_alignment(service, r.invoice)
            /\ r.checks[4] = verify_contractual_standing(service, r.invoice)

\* a result whose routing check failed for a missing IBAN and whose three
\* later checks are reported as passed
C21_Witness ==
    \E k \in DOMAIN results :
        /\ Len(results[k].checks) = 4
        /\ results[k].invoice.iban = UNKNOWN
        /\ results[k].checks[1].status = FAIL
        /\ results[k].checks[2].status = PASS
        /\ results[k].checks[3].status = PASS
        /\ results[k].checks[4].status = PASS

\* ------------------------------------------------------------------------
\* FinancialCalculator: the order of the two checks
\* ------------------------------------------------------------------------

C23_ReasonIffAwaiting ==
    pc = "idle"
    => \A id \in DOMAIN active_workflows :
          LET c == heap[active_workflows[id]]
          IN  (c.human_action_needed # NoneValue) <=> (c.status = AWAITING_HUMAN)

\* a context held by the high-risk gate with its reason, next to one that
\* was auto-approved and carries none
C23_Witness ==
    /\ pc = "idle"
    /\ \E id, other \in DOMAIN active_workflows :
          /\ heap[active_workflows[id]].status = AWAITING_HUMAN
          /\ heap[active_workflows[id]].human_action_needed = HighRiskReason
          /\ heap[active_workflows[other]].status = APPROVED
          /\ Last(heap[active_workflows[other]].logs) = AutoApprovedEntry
          /\ heap[active_workflows[other]].human_action_needed = NoneValue

====
